---- MODULE Spec2Model ----
(***************************************************************************)
(* Model of pyeia/api.py: the job queue, the consumer threads and the      *)
(* batched query methods of BaseQuery and its subclasses (Series,          *)
(* SeriesCategory, Updates, Search), and the row paging of Updates.query.  *)
(*                                                                         *)
(* Spec        the queue/consumer engine with overlapping query() calls   *)
(* FairSpec    Spec with weak fairness of every thread's next step         *)
(* SeqSpec     Spec with one caller: a call starts after the last ended    *)
(* SpecUpdates the page arithmetic of Updates.query                        *)
(* SpecSearch  Search.query: the term check, the probe and the pages       *)
(* SpecChunk   the chunks of Series.query and SeriesCategory.query         *)
(* SpecParams  the page_params objects of the paging loops and consumers   *)
(***************************************************************************)
EXTENDS Integers, Sequences, FiniteSets, TLC

\* ------------------------------------------------------------------ bounds
\* The constructor argument `consumers` (its default is 4).
Consumers == 2
\* Number of jobs enqueued in one run, over all calls.
MaxJobs == 3
\* Number of query() calls made on the instance in one run. Calls may overlap
\* (made by different threads of the application) or follow one another.
MaxCalls == 2
\* Largest row limit / rows_available handed to Updates.query.
MaxRows == 30001
\* Largest numFound the probe of Search.query reports.
MaxTotal == 22501
\* Largest number of series ids handed to Series.query.
MaxIds == 250

\* --------------------------------------------------------------- constants
\* Updates.query: rows per page.
PageSize == 10000
\* Updates.query: default of the parameter `rows`.
DefaultRows == 50
\* Search.query: chunksize.
ChunkSize == 7500
\* Series.query / SeriesCategory.query: chunk(series_ids, 100).
ChunkLen == 100

\* The calls of query(), numbered in the order in which they start.
Calls == 1..MaxCalls

\* BaseQuery.__init__ with one thread too many (range(consumers + 1)).
WorkersOneTooMany == 1..(Consumers + 1)

\* BaseQuery.__init__: for n in range(consumers): Thread(target=self._consume)
Workers == 1..Consumers

\* The classes that define parse, hence own a queue and consumers.
Kinds == {"Series", "SeriesCategory", "Updates", "Search"}
\* parse calls self.post (Series, SeriesCategory) or self.get (Updates, Search).
PostKinds == {"Series", "SeriesCategory"}
\* query() issues a probe request with self.get before it enqueues anything.
ProbeKinds == {"Updates", "Search"}

NoJob == <<0, 0>>

VARIABLES
    kind,             \* class of the instance
    queue,            \* self.queue: jobs put and not yet got
    unfinished_tasks, \* self.queue.unfinished_tasks, what join() waits on
    results,          \* self.results
    wpc,              \* consumer thread -> "get" | "parse" | "task_done" | "dead"
    wjob,             \* consumer thread -> job in hand
    cpc,              \* call -> position in query() ("idle": not yet made)
    cn,               \* call -> number of jobs its loop enqueues
    ci,               \* call -> number of jobs enqueued so far
    cout,             \* call -> `output`, the results got so far
    ncalls,           \* query() calls started so far
    njobs,            \* jobs the calls started so far enqueue in all
    outcome,          \* history: job -> vals put on self.results for it
    processed,        \* history: jobs a consumer has finished handling
    failed,           \* history: jobs whose endpoint call failed
    urows0,           \* Updates.query: argument rows
    uavail,           \* Updates.query: poll['data']['rows_available']
    urows,            \* Updates.query: local `rows` (rebound in the loop)
    un,               \* Updates.query: local `n`
    upage,            \* Updates.query: next value of `page`
    uplan,            \* Updates.query: history of the page_params put
    upc,              \* Updates.query: "poll" | "loop" | "join" | "raised"
    sterm,            \* Search.query: argument search_term
    smode,            \* Search.query: argument rows_per_page
    stotal,           \* Search.query: local `total`
    spage,            \* Search.query: next value of `page`
    splan,            \* Search.query: history of the page_params put
    sgets,            \* Search.query: requests the caller has issued
    spc,              \* Search.query: position
    kids,             \* Series.query: argument series_ids
    koff,             \* chunk: next value of `i`
    kplan,            \* Series.query: history of the chunks C
    kpc,              \* Series.query: "loop" | "join"
    heap,             \* the dict objects: heap[1] is `params`
    hrows,            \* paging loop: local `rows` (Updates), `total` (Search)
    hn,               \* paging loop: number of pages of the range
    hpage,            \* paging loop: `page`
    hcur,             \* paging loop: the object `page_params` names
    hpc,              \* paging loop: "copy" | "update" | "clip" | "put" | "join"
    hq,               \* self.queue: references put and not yet got
    hput,             \* history: reference and value of each put
    hw,               \* consumer thread -> queue entry in hand
    hseen             \* history: value parse was given for each entry

evars == <<kind, queue, unfinished_tasks, results, wpc, wjob, cpc, cn,
           ci, cout, ncalls, njobs, outcome, processed, failed>>
\* evars without the job queue and its counter.
erest == <<kind, results, wpc, wjob, cpc, cn, ci, cout, ncalls, njobs,
           outcome, processed, failed>>
uvars == <<urows0, uavail, urows, un, upage, uplan, upc>>
svars == <<sterm, smode, stotal, spage, splan, sgets, spc>>
kvars == <<kids, koff, kplan, kpc>>
\* The locals of the query() whose planning is followed step by step.
hvars == <<heap, hrows, hn, hpage, hcur, hpc, hq, hput, hw, hseen>>
pvars == <<uvars, svars, kvars, hvars>>
vars == <<evars, pvars>>

\* ------------------------------------------------------------ the requests
\* What parse returns when it returns: the decoded payload, or None when
\* post() caught the error of raise_for_status()/json() and printed it.
ParseReturns(k) == IF k \in PostKinds THEN {"payload", "None"} ELSE {"payload"}

\* `output = [self.results.get() for _ in range(i + 1)]`: i (Series,
\* SeriesCategory) and page (Updates) are the loop variables and are unbound
\* when the loop body never ran; Search uses range(pages).
DrainCountBound(k, n) == k = "Search" \/ n > 0

\* The drain with one results.get() too few (range(i) for range(i + 1)).
DrainCountShort(n) == n - 1

\* The number of results.get() calls of the drain when its count is bound:
\* range(i + 1) with i the index of the last job, range(pages) in Search.
DrainCount(n) == n

\* queue.join() never waits.
JoinNeverWaits == TRUE

\* queue.join(): returns once unfinished_tasks is zero.
JoinReleased == unfinished_tasks = 0

\* The reducers: d["series"] / d[k] on a None raises TypeError.
ReduceRaises(out) == \E i \in 1..Len(out) : out[i].val = "None"

\* --------------------------------------------------------------- the engine
EngineInit ==
    /\ kind \in Kinds
    /\ queue = <<>>
    /\ unfinished_tasks = 0
    /\ results = <<>>
    /\ wpc = [w \in Workers |-> "get"]
    /\ wjob = [w \in Workers |-> NoJob]
    /\ cpc = [c \in Calls |-> "idle"]
    /\ cn = [c \in Calls |-> 0]
    /\ ci = [c \in Calls |-> 0]
    /\ cout = [c \in Calls |-> <<>>]
    /\ ncalls = 0
    /\ njobs = 0
    /\ outcome = <<>>
    /\ processed = {}
    /\ failed = {}

UpdatesIdle ==
    /\ urows0 = DefaultRows
    /\ uavail = 0
    /\ urows = DefaultRows
    /\ un = 0
    /\ upage = 0
    /\ uplan = <<>>
    /\ upc = "poll"

SearchIdle ==
    /\ sterm = "series_id"
    /\ smode = "10"
    /\ stotal = 0
    /\ spage = 0
    /\ splan = <<>>
    /\ sgets = 0
    /\ spc = "clean"

ChunkIdle ==
    /\ kids = <<>>
    /\ koff = 0
    /\ kplan = <<>>
    /\ kpc = "loop"

NoEntry == [put |-> 0, ref |-> 0]

ParamsIdle ==
    /\ heap = <<{}>>
    /\ hrows = 0
    /\ hn = 0
    /\ hpage = 0
    /\ hcur = 0
    /\ hpc = "join"
    /\ hq = <<>>
    /\ hput = <<>>
    /\ hw = [w \in Workers |-> NoEntry]
    /\ hseen = {}

Init == EngineInit /\ UpdatesIdle /\ SearchIdle /\ ChunkIdle /\ ParamsIdle

\* query() has returned or raised to its caller.
Finished(c) == cpc[c] \in {"returned", "probe_raised", "unbound_raised",
                           "reduce_raised"}

\* The loop of query() is entered with n jobs to enqueue.
StartLoop(c, n) ==
    /\ njobs + n <= MaxJobs
    /\ njobs' = njobs + n
    /\ cn' = [cn EXCEPT ![c] = n]
    /\ cpc' = [cpc EXCEPT ![c] = IF n = 0 THEN "join" ELSE "put"]

\* A thread of the application calls query(). Series and SeriesCategory go
\* straight to the loop over chunk(series_ids, 100); Updates and Search first
\* probe.
Call(c) ==
    /\ cpc[c] = "idle"
    /\ c = ncalls + 1
    /\ ncalls' = ncalls + 1
    /\ IF kind \in ProbeKinds
       THEN /\ cpc' = [cpc EXCEPT ![c] = "probe"]
            /\ cn' = [cn EXCEPT ![c] = 0]
            /\ njobs' = njobs
       ELSE \E n \in 0..MaxJobs : StartLoop(c, n)
    /\ UNCHANGED <<kind, queue, unfinished_tasks, results, wpc, wjob, ci, cout,
                   outcome, processed, failed>>
    /\ UNCHANGED pvars

\* The probe self.get(...) of Updates.query / Search.query returns, and the
\* number of pages follows from it.
ProbeReturn(c) ==
    /\ cpc[c] = "probe"
    /\ \E n \in 0..MaxJobs : StartLoop(c, n)
    /\ UNCHANGED <<kind, queue, unfinished_tasks, results, wpc, wjob,
                   ci, cout, ncalls, outcome, processed, failed>>
    /\ UNCHANGED pvars

\* The probe raises (raise_for_status in get) to the caller of query().
ProbeRaise(c) ==
    /\ cpc[c] = "probe"
    /\ cpc' = [cpc EXCEPT ![c] = "probe_raised"]
    /\ UNCHANGED <<kind, queue, unfinished_tasks, results, wpc, wjob,
                   cn, ci, cout, ncalls, njobs, outcome, processed, failed>>
    /\ UNCHANGED pvars

\* One iteration of the enqueue loop: self.queue.put(job).
Put(c) ==
    /\ cpc[c] = "put"
    /\ LET job == <<c, ci[c] + 1>> IN
       /\ queue' = Append(queue, job)
       /\ outcome' = [j \in DOMAIN outcome \cup {job} |->
                        IF j = job THEN <<>> ELSE outcome[j]]
    /\ unfinished_tasks' = unfinished_tasks + 1
    /\ ci' = [ci EXCEPT ![c] = ci[c] + 1]
    /\ cpc' = [cpc EXCEPT ![c] = IF ci[c] + 1 = cn[c] THEN "join" ELSE "put"]
    /\ UNCHANGED <<kind, results, wpc, wjob, cn, cout, ncalls, njobs,
                   processed, failed>>
    /\ UNCHANGED pvars

\* self.queue.join() returns and the drain expression is evaluated.
Join(c) ==
    /\ cpc[c] = "join"
    /\ JoinReleased
    /\ cpc' = [cpc EXCEPT ![c] =
                 IF ~DrainCountBound(kind, cn[c]) THEN "unbound_raised"
                 ELSE IF DrainCount(cn[c]) <= 0 THEN "returned"
                 ELSE "drain"]
    /\ UNCHANGED <<kind, queue, unfinished_tasks, results, wpc, wjob,
                   cn, ci, cout, ncalls, njobs, outcome, processed, failed>>
    /\ UNCHANGED pvars

\* One self.results.get() of the drain; after the last one the reducer runs
\* and query() returns or raises.
Get(c) ==
    /\ cpc[c] = "drain"
    /\ results # <<>>
    /\ results' = Tail(results)
    /\ LET out == Append(cout[c], Head(results)) IN
       /\ cout' = [cout EXCEPT ![c] = out]
       /\ cpc' = [cpc EXCEPT ![c] =
                    IF Len(out) < DrainCount(cn[c]) THEN "drain"
                    ELSE IF ReduceRaises(out) THEN "reduce_raised"
                    ELSE "returned"]
    /\ UNCHANGED <<kind, queue, unfinished_tasks, wpc, wjob, cn, ci,
                   ncalls, njobs, outcome, processed, failed>>
    /\ UNCHANGED pvars

\* _consume: job = self.queue.get()
WGet(w) ==
    /\ wpc[w] = "get"
    /\ queue # <<>>
    /\ wjob' = [wjob EXCEPT ![w] = Head(queue)]
    /\ queue' = Tail(queue)
    /\ wpc' = [wpc EXCEPT ![w] = "parse"]
    /\ UNCHANGED <<kind, unfinished_tasks, results, cpc, cn, ci, cout,
                   ncalls, njobs, outcome, processed, failed>>
    /\ UNCHANGED pvars

\* _consume: result = self.parse(job); self.results.put(result)
WParseReturn(w) ==
    /\ wpc[w] = "parse"
    /\ \E v \in ParseReturns(kind) :
         /\ results' = Append(results, [job |-> wjob[w], val |-> v])
         /\ outcome' = [outcome EXCEPT ![wjob[w]] = Append(@, v)]
         /\ failed' = IF v = "None" THEN failed \cup {wjob[w]} ELSE failed
    /\ wpc' = [wpc EXCEPT ![w] = "task_done"]
    /\ UNCHANGED <<kind, queue, unfinished_tasks, wjob, cpc, cn, ci,
                   cout, ncalls, njobs, processed>>
    /\ UNCHANGED pvars

\* _consume: parse raises (requests.post/get fail to connect, raise_for_status
\* in get, a missing key in Search.parse). The handler calls warn(e); the
\* module defines no name warn, so the handler raises NameError, which leaves
\* the while loop: the thread ends and task_done() is not called.
WParseRaise(w) ==
    /\ wpc[w] = "parse"
    /\ wpc' = [wpc EXCEPT ![w] = "dead"]
    /\ failed' = failed \cup {wjob[w]}
    /\ processed' = processed \cup {wjob[w]}
    /\ UNCHANGED <<kind, queue, unfinished_tasks, results, wjob, cpc,
                   cn, ci, cout, ncalls, njobs, outcome>>
    /\ UNCHANGED pvars

\* _consume: self.queue.task_done(), and back to the top of the loop.
WTaskDone(w) ==
    /\ wpc[w] = "task_done"
    /\ unfinished_tasks' = unfinished_tasks - 1
    /\ processed' = processed \cup {wjob[w]}
    /\ wjob' = [wjob EXCEPT ![w] = NoJob]
    /\ wpc' = [wpc EXCEPT ![w] = "get"]
    /\ UNCHANGED <<kind, queue, results, cpc, cn, ci, cout, ncalls, njobs,
                   outcome, failed>>
    /\ UNCHANGED pvars

WorkerStep(w) == WGet(w) \/ WParseReturn(w) \/ WParseRaise(w) \/ WTaskDone(w)

\* The steps of a query() call under way (not the decision to call).
CallerStep(c) == ProbeReturn(c) \/ ProbeRaise(c) \/ Put(c) \/ Join(c) \/ Get(c)

Next ==
    \/ \E c \in Calls : Call(c)
    \/ \E c \in Calls : ProbeReturn(c)
    \/ \E c \in Calls : ProbeRaise(c)
    \/ \E c \in Calls : Put(c)
    \/ \E c \in Calls : Join(c)
    \/ \E c \in Calls : Get(c)
    \/ \E w \in Workers : WGet(w)
    \/ \E w \in Workers : WParseReturn(w)
    \/ \E w \in Workers : WParseRaise(w)
    \/ \E w \in Workers : WTaskDone(w)

Spec == Init /\ [][Next]_vars

\* Every thread that can take a step eventually takes one.
FairSpec ==
    /\ Init
    /\ [][Next]_vars
    /\ \A w \in Workers : WF_vars(WorkerStep(w))
    /\ \A c \in Calls : WF_vars(CallerStep(c))

\* One caller: it calls query() again only after its last call has returned
\* or raised.
CallSeq(c) ==
    /\ \A d \in Calls : d < c => Finished(d)
    /\ Call(c)

NextSeq ==
    \/ \E c \in Calls : CallSeq(c)
    \/ \E c \in Calls : ProbeReturn(c)
    \/ \E c \in Calls : ProbeRaise(c)
    \/ \E c \in Calls : Put(c)
    \/ \E c \in Calls : Join(c)
    \/ \E c \in Calls : Get(c)
    \/ \E w \in Workers : WGet(w)
    \/ \E w \in Workers : WParseReturn(w)
    \/ \E w \in Workers : WParseRaise(w)
    \/ \E w \in Workers : WTaskDone(w)

SeqSpec == Init /\ [][NextSeq]_vars

\* ------------------------------------------------- Updates.query: the pages
\* The row limits handed to Updates.query.
RowInputs == 0..MaxRows

\* The rows_available the poll reports. n = rows or rows_available reads it
\* only when rows is 0.
AvailInputs(r) == IF r = 0 THEN 0..MaxRows ELSE {0, PageSize, MaxRows}

\* int(np.ceil(n / 10000.))
NumPages(n) == IF n % PageSize = 0 THEN n \div PageSize ELSE n \div PageSize + 1

\* n = rows or poll['data']['rows_available']
RowsOr(r, avail) == IF r # 0 THEN r ELSE avail

\* The clip that forgets the offset of the page.
ClippedRowsNoOffset(r, first) == r

\* rows = rows - first
ClippedRows(r, first) == r - first

\* if first + 10000 > rows
MustClip(r, first) == first + PageSize > r

UpdatesInit ==
    /\ EngineInit
    /\ kind = "Updates"
    /\ urows0 \in RowInputs
    /\ urows = urows0
    /\ uavail = 0
    /\ un = 0
    /\ upage = 0
    /\ uplan = <<>>
    /\ upc = "poll"
    /\ SearchIdle
    /\ ChunkIdle
    /\ ParamsIdle

\* poll = self.get(..., rows=1, firstrow=0); n = rows or rows_available
UpdatesPoll ==
    /\ upc = "poll"
    /\ \E a \in AvailInputs(urows0) :
         /\ uavail' = a
         /\ un' = RowsOr(urows, a)
         /\ upc' = IF NumPages(RowsOr(urows, a)) = 0 THEN "join" ELSE "loop"
    /\ UNCHANGED <<urows0, urows, upage, uplan>>
    /\ UNCHANGED <<evars, svars, kvars, hvars>>

\* The poll raises to the caller of query(): nothing is enqueued.
UpdatesPollRaise ==
    /\ upc = "poll"
    /\ upc' = "raised"
    /\ UNCHANGED <<urows0, uavail, urows, un, upage, uplan>>
    /\ UNCHANGED <<evars, svars, kvars, hvars>>

\* One iteration of `for page in range(int(np.ceil(n / 10000.)))`. The other
\* keys of page_params (category_id, deep) are the arguments, unchanged.
UpdatesPage ==
    /\ upc = "loop"
    /\ LET first == upage * PageSize
           clip == MustClip(urows, first)
           r == IF clip THEN ClippedRows(urows, first) ELSE urows
           page_params == [firstrow |-> first,
                           rows |-> IF clip THEN r ELSE PageSize]
       IN /\ urows' = r
          /\ uplan' = Append(uplan, page_params)
          /\ queue' = Append(queue, page_params)
          /\ unfinished_tasks' = unfinished_tasks + 1
    /\ upage' = upage + 1
    /\ upc' = IF upage + 1 = NumPages(un) THEN "join" ELSE "loop"
    /\ UNCHANGED <<urows0, uavail, un>>
    /\ UNCHANGED <<erest, svars, kvars, hvars>>

NextUpdates == UpdatesPoll \/ UpdatesPollRaise \/ UpdatesPage

SpecUpdates == UpdatesInit /\ [][NextUpdates]_vars

\* --------------------------------------------------------- Search.query
\* The search terms handed to Search.query; "category" is none it accepts.
TermInputs == {"series_id", "name", "last_updated", "category"}

\* The rows_per_page handed to Search.query, by name: the integer 0, the
\* string 'all', the default 10.
ModeInputs == {"0", "all", "10"}

\* clean_search_params with the assert left out.
AnyTermValid(t) == TRUE

\* clean_search_params: assert t in ["series_id", "name", "last_updated"]
ValidTerm(t) == t \in {"series_id", "name", "last_updated"}

\* if (rows_per_page == 0) or (rows_per_page == 'all')
FetchAll(m) == m = "0" \/ m = "all"

\* pages = int(np.ceil(total / float(chunksize)))
SearchPages(t) ==
    IF t % ChunkSize = 0 THEN t \div ChunkSize ELSE t \div ChunkSize + 1

\* The last page left at the full chunksize.
SearchRowsUnclipped(t, first) == ChunkSize

\* rows = chunksize; if first + rows > total: rows = total - first
SearchRows(t, first) == IF first + ChunkSize > t THEN t - first ELSE ChunkSize

\* page_params.update({"page_num": page, ...})
SearchPageNum(page) == page

SearchInit ==
    /\ EngineInit
    /\ kind = "Search"
    /\ sterm \in TermInputs
    /\ smode \in ModeInputs
    /\ stotal = 0
    /\ spage = 0
    /\ splan = <<>>
    /\ sgets = 0
    /\ spc = "clean"
    /\ UpdatesIdle
    /\ ChunkIdle
    /\ ParamsIdle

\* t, v = self.clean_search_params(search_term, search_value): the assert
\* raises AssertionError to the caller of query(), or the branch on
\* rows_per_page is taken. (The cleaning of search_value is not followed.)
SearchClean ==
    /\ spc = "clean"
    /\ spc' = IF ~ValidTerm(sterm) THEN "assert_raised"
              ELSE IF FetchAll(smode) THEN "probe"
              ELSE "single"
    /\ UNCHANGED <<sterm, smode, stotal, spage, splan, sgets>>
    /\ UNCHANGED <<evars, uvars, kvars, hvars>>

\* r = self.get(..., page_num=1, rows_per_page=1); total = numFound
SearchProbe ==
    /\ spc = "probe"
    /\ sgets' = sgets + 1
    /\ \E t \in 0..MaxTotal :
         /\ stotal' = t
         /\ spc' = IF SearchPages(t) = 0 THEN "join" ELSE "loop"
    /\ UNCHANGED <<sterm, smode, spage, splan>>
    /\ UNCHANGED <<evars, uvars, kvars, hvars>>

\* The probe raises to the caller of query().
SearchProbeRaise ==
    /\ spc = "probe"
    /\ sgets' = sgets + 1
    /\ spc' = "probe_raised"
    /\ UNCHANGED <<sterm, smode, stotal, spage, splan>>
    /\ UNCHANGED <<evars, uvars, kvars, hvars>>

\* One iteration of `for page in range(pages)`. The other keys of
\* page_params (search_term, search_value) are t and v, unchanged.
SearchPage ==
    /\ spc = "loop"
    /\ LET first == spage * ChunkSize
           page_params == [page_num |-> SearchPageNum(spage),
                           rows_per_page |-> SearchRows(stotal, first)]
       IN /\ splan' = Append(splan, page_params)
          /\ queue' = Append(queue, page_params)
          /\ unfinished_tasks' = unfinished_tasks + 1
    /\ spage' = spage + 1
    /\ spc' = IF spage + 1 = SearchPages(stotal) THEN "join" ELSE "loop"
    /\ UNCHANGED <<sterm, smode, stotal, sgets>>
    /\ UNCHANGED <<erest, uvars, kvars, hvars>>

\* The other branch: one request for the page asked for, whose docs are
\* returned, or whose error is raised, to the caller.
SearchSingle ==
    /\ spc = "single"
    /\ sgets' = sgets + 1
    /\ \E r \in {"returned", "single_raised"} : spc' = r
    /\ UNCHANGED <<sterm, smode, stotal, spage, splan>>
    /\ UNCHANGED <<evars, uvars, kvars, hvars>>

NextSearch ==
    SearchClean \/ SearchProbe \/ SearchProbeRaise \/ SearchPage \/ SearchSingle

SpecSearch == SearchInit /\ [][NextSearch]_vars

\* ------------------------------- Series.query / SeriesCategory.query: chunks
\* The series ids handed to query(): L distinct ids.
IdInputs(L) == [k \in 1..L |-> ToString(k)]

\* l[a:b] cut one element short.
SliceShort(l, a, b) == SubSeq(l, a + 1, (IF b < Len(l) THEN b ELSE Len(l)) - 1)

\* l[a:b] for 0 <= a <= b
Slice(l, a, b) == SubSeq(l, a + 1, IF b < Len(l) THEN b ELSE Len(l))

RECURSIVE JoinIds(_)
\* ';'.join(C), as the sequence of its tokens
JoinIds(C) ==
    IF Len(C) <= 1 THEN C ELSE <<Head(C), ";">> \o JoinIds(Tail(C))

ChunkInit ==
    /\ EngineInit
    /\ kind \in PostKinds
    /\ \E L \in 0..MaxIds : kids = IdInputs(L)
    /\ koff = 0
    /\ kplan = <<>>
    /\ kpc = (IF kids = <<>> THEN "join" ELSE "loop")
    /\ UpdatesIdle
    /\ SearchIdle
    /\ ParamsIdle

\* One iteration of `for i, C in enumerate(chunk(series_ids, 100))`:
\* chunk yields l[i:i + n] and the loop puts ';'.join(C).
ChunkPut ==
    /\ kpc = "loop"
    /\ LET C == Slice(kids, koff, koff + ChunkLen) IN
       /\ kplan' = Append(kplan, C)
       /\ queue' = Append(queue, JoinIds(C))
    /\ unfinished_tasks' = unfinished_tasks + 1
    /\ koff' = koff + ChunkLen
    /\ kpc' = IF koff + ChunkLen < Len(kids) THEN "loop" ELSE "join"
    /\ UNCHANGED kids
    /\ UNCHANGED <<erest, uvars, svars, hvars>>

NextChunk == ChunkPut

SpecChunk == ChunkInit /\ [][NextChunk]_vars

\* ------------------------- the page_params objects of the paging loops
\* A dict is a set of <<key, value>> pairs, a reference is an index of heap.
\* The keys that carry the arguments through unchanged (category_id, deep,
\* search_term, search_value) are left out.
ParamsRef == 1

\* d.update({k: v})
DictUpdate(d, k, v) == {e \in d : e[1] # k} \cup {<<k, v>>}

\* page_params = params: a second name for the one object.
DictAlias(h, ref) == [heap |-> h, ref |-> ref]

\* page_params = dict(params): a new object with the pairs of the old one.
DictCopy(h, ref) == [heap |-> Append(h, h[ref]), ref |-> Len(h) + 1]

\* params = {"category_id": category_id, "deep": deep, "rows": 10000};
\* params = {"search_term": t, "search_value": v}
ParamsOf(k) == IF k = "Updates" THEN {<<"rows", PageSize>>} ELSE {}

\* The arguments rows of Updates.query the objects are followed for.
ParamRowInputs == {0, DefaultRows, PageSize, PageSize + 1, MaxRows}

\* The rows_available of the poll, read when rows is 0.
ParamAvailInputs == {1, PageSize + 1}

\* The numFound of the probe of Search.query.
ParamTotalInputs == {0, 1, ChunkSize, ChunkSize + 1, MaxTotal}

ParamsInit ==
    /\ EngineInit
    /\ kind \in ProbeKinds
    /\ UpdatesIdle
    /\ SearchIdle
    /\ ChunkIdle
    /\ heap = <<ParamsOf(kind)>>
    /\ IF kind = "Updates"
       THEN \E r \in ParamRowInputs, a \in ParamAvailInputs :
               /\ hrows = r
               /\ hn = NumPages(RowsOr(r, a))
       ELSE \E t \in ParamTotalInputs :
               /\ hrows = t
               /\ hn = SearchPages(t)
    /\ hpage = 0
    /\ hcur = 0
    /\ hpc = (IF hn = 0 THEN "join" ELSE "copy")
    /\ hq = <<>>
    /\ hput = <<>>
    /\ hw = [w \in Workers |-> NoEntry]
    /\ hseen = {}

\* page_params = dict(params)
ParamsCopy ==
    /\ hpc = "copy"
    /\ LET new == DictCopy(heap, ParamsRef) IN
       /\ heap' = new.heap
       /\ hcur' = new.ref
    /\ hpc' = "update"
    /\ UNCHANGED <<hrows, hn, hpage, hq, hput, hw, hseen>>
    /\ UNCHANGED <<evars, uvars, svars, kvars>>

\* Updates: page_params.update({"firstrow": first}).
\* Search: page_params.update({"page_num": page, "rows_per_page": rows}).
ParamsUpdate ==
    /\ hpc = "update"
    /\ IF kind = "Updates"
       THEN LET first == hpage * PageSize IN
            /\ heap' = [heap EXCEPT ![hcur] =
                            DictUpdate(@, "firstrow", first)]
            /\ hpc' = IF MustClip(hrows, first) THEN "clip" ELSE "put"
       ELSE LET first == hpage * ChunkSize IN
            /\ heap' = [heap EXCEPT ![hcur] =
                            DictUpdate(DictUpdate(@, "page_num",
                                                  SearchPageNum(hpage)),
                                       "rows_per_page",
                                       SearchRows(hrows, first))]
            /\ hpc' = "put"
    /\ UNCHANGED <<hrows, hn, hpage, hcur, hq, hput, hw, hseen>>
    /\ UNCHANGED <<evars, uvars, svars, kvars>>

\* Updates: rows = rows - first; page_params.update({"rows": rows})
ParamsClip ==
    /\ hpc = "clip"
    /\ LET r == ClippedRows(hrows, hpage * PageSize) IN
       /\ hrows' = r
       /\ heap' = [heap EXCEPT ![hcur] = DictUpdate(@, "rows", r)]
    /\ hpc' = "put"
    /\ UNCHANGED <<hn, hpage, hcur, hq, hput, hw, hseen>>
    /\ UNCHANGED <<evars, uvars, svars, kvars>>

\* self.queue.put(page_params): the queue holds the reference.
ParamsPut ==
    /\ hpc = "put"
    /\ hq' = Append(hq, [put |-> Len(hput) + 1, ref |-> hcur])
    /\ hput' = Append(hput, [ref |-> hcur, val |-> heap[hcur]])
    /\ hpage' = hpage + 1
    /\ hpc' = IF hpage + 1 = hn THEN "join" ELSE "copy"
    /\ UNCHANGED <<heap, hrows, hn, hcur, hw, hseen>>
    /\ UNCHANGED <<evars, uvars, svars, kvars>>

\* job = self.queue.get()
ParamsGet(w) ==
    /\ hw[w] = NoEntry
    /\ hq # <<>>
    /\ hw' = [hw EXCEPT ![w] = Head(hq)]
    /\ hq' = Tail(hq)
    /\ UNCHANGED <<heap, hrows, hn, hpage, hcur, hpc, hput, hseen>>
    /\ UNCHANGED <<evars, uvars, svars, kvars>>

\* self.parse(job): self.get(**page_params) reads the object as it is now.
ParamsParse(w) ==
    /\ hw[w] # NoEntry
    /\ hseen' = hseen \cup {[put |-> hw[w].put, val |-> heap[hw[w].ref],
                             objs |-> Len(heap)]}
    /\ hw' = [hw EXCEPT ![w] = NoEntry]
    /\ UNCHANGED <<heap, hrows, hn, hpage, hcur, hpc, hq, hput>>
    /\ UNCHANGED <<evars, uvars, svars, kvars>>

NextParams ==
    \/ ParamsCopy
    \/ ParamsUpdate
    \/ ParamsClip
    \/ ParamsPut
    \/ \E w \in Workers : ParamsGet(w)
    \/ \E w \in Workers : ParamsParse(w)

SpecParams == ParamsInit /\ [][NextParams]_vars

\* ------------------------------------------------------------------ claims
\* The jobs of the query() call a caller is in (or was last in).
BatchJobs(c) == {<<c, i>> : i \in 1..cn[c]}

\* The number of outcomes put on self.results for the jobs of c's call.
NumOutcomes(c) ==
    Cardinality({jk \in BatchJobs(c) \X (1..(MaxJobs + 1)) :
                   /\ jk[1] \in DOMAIN outcome
                   /\ jk[2] <= Len(outcome[jk[1]])})

\* The consumers executing parse.
InFlight == {w \in DOMAIN wpc : wpc[w] = "parse"}

\* C1: under fair scheduling every query() call that has started enqueuing
\* eventually returns (or raises) to its caller, whether parse returns or
\* raises: no caller stays in the enqueue loop, in queue.join() or in the
\* results.get() drain forever.
C1_QueryReturns ==
    \A c \in Calls : (cpc[c] \in {"put", "join", "drain"}) ~> Finished(c)

\* C2: every job a consumer has finished handling has exactly one outcome
\* recorded: a result when parse returned, a failure record when it raised.
C2_OneOutcomePerJob == \A j \in processed : Len(outcome[j]) = 1

\* C3: the outcomes a query collects for its jobs are in submission order,
\* whatever the order in which the consumers completed them.
C3_SubmissionOrder ==
    \A c \in Calls : \A i, k \in 1..Len(cout[c]) :
        (/\ i < k
         /\ cout[c][i].job[1] = c
         /\ cout[c][k].job[1] = c)
        => cout[c][i].job[2] < cout[c][k].job[2]

\* C4: once the N jobs of a batch have been processed, the endpoint call of
\* exactly one of them having failed, N outcomes are recorded: a failure for
\* the failed job and the payload of its own call for every other job.
C4_FailureIsolation ==
    \A c \in Calls :
        (/\ cpc[c] # "idle"
         /\ ci[c] = cn[c]
         /\ BatchJobs(c) \subseteq processed
         /\ Cardinality(BatchJobs(c) \cap failed) = 1)
        => \A j \in BatchJobs(c) :
              /\ Len(outcome[j]) = 1
              /\ (outcome[j][1] = "payload") <=> (j \notin failed)

\* A caller that queue.join() has released.
Released(c) ==
    /\ cpc[c] # "idle"
    /\ cpc[c] \in {"drain", "returned", "unbound_raised", "reduce_raised"}

\* The jobs whose results a call has collected.
Collected(c) == {cout[c][i].job : i \in 1..Len(cout[c])}

\* C5: a caller is past queue.join() only when every job it enqueued has been
\* processed and exactly as many outcomes are recorded as it enqueued jobs;
\* a query() that finishes its drain has read that many results, never fewer,
\* and, when no other call was made on the instance, the results of exactly
\* its own jobs.
C5_ReleasedWhenAllTerminal ==
    \A c \in Calls :
        /\ Released(c) =>
              /\ ci[c] = cn[c]
              /\ BatchJobs(c) \subseteq processed
              /\ NumOutcomes(c) = cn[c]
        /\ cpc[c] \in {"returned", "reduce_raised"} =>
              /\ Len(cout[c]) = cn[c]
              /\ ncalls = 1 => Collected(c) = BatchJobs(c)

\* C5 witness: join has just released a caller that enqueued two jobs.
C5_Witness ==
    \E c \in Calls : cpc[c] = "drain" /\ cn[c] = 2 /\ cout[c] = <<>>

\* C6: the number of live consumer threads is the pool size `consumers` in
\* every state: a consumer survives a parse call that raises.
C6_WorkersSurvive ==
    Cardinality({w \in Workers : wpc[w] # "dead"}) = Consumers

\* C7: a query() call with no work enqueues nothing and returns an empty
\* result: it does not raise.
C7_EmptyBatchReturnsEmpty ==
    \A c \in Calls :
        (cpc[c] # "idle" /\ cn[c] = 0) =>
            /\ cpc[c] # "unbound_raised"
            /\ BatchJobs(c) = {}
            /\ cout[c] = <<>>

\* C8: every outcome a caller collects is the outcome of a job it enqueued
\* itself in this call, also when another caller runs a query concurrently.
C8_OwnOutcomes ==
    \A c \in Calls : \A i \in 1..Len(cout[c]) :
        cout[c][i].job[1] = c

\* C9: at most `consumers` jobs are in flight (dequeued, parse not yet
\* returned) in every state.
C9_ConcurrencyBound == Cardinality(InFlight) <= Consumers

\* C9 witness: the pool is saturated while a further job waits in the queue.
C9_Witness == Cardinality(InFlight) = Consumers /\ queue # <<>>

\* ceil(r / PageSize), by the integer formula.
CeilDiv(r, d) == (r + d - 1) \div d

Min(a, b) == IF a < b THEN a ELSE b

\* C10: for a row limit R > 0, Updates.query enqueues ceil(R / 10000) jobs,
\* job p with firstrow = 10000 * p and rows = min(10000, R - 10000 * p): every
\* page is non-empty, the pages are consecutive from 0 and end at R.
C10_RowPaging ==
    (urows0 > 0 /\ upc = "join") =>
        /\ Len(uplan) = CeilDiv(urows0, PageSize)
        /\ queue = uplan
        /\ \A p \in 0..(Len(uplan) - 1) :
              /\ uplan[p + 1].firstrow = PageSize * p
              /\ uplan[p + 1].rows = Min(PageSize, urows0 - PageSize * p)
              /\ uplan[p + 1].rows >= 1
              /\ uplan[p + 1].firstrow + uplan[p + 1].rows =
                    (IF p + 1 = Len(uplan) THEN urows0
                     ELSE uplan[p + 2].firstrow)

\* C10 witness: R = 25000 gives [0,10000), [10000,20000), [20000,25000).
C10_Witness ==
    /\ upc = "join"
    /\ urows0 = 25000
    /\ uplan = << [firstrow |-> 0, rows |-> 10000],
                  [firstrow |-> 10000, rows |-> 10000],
                  [firstrow |-> 20000, rows |-> 5000] >>

RECURSIVE SumRowsPerPage(_)
\* The results requested by a sequence of Search page_params, in all.
SumRowsPerPage(plan) ==
    IF plan = <<>> THEN 0
    ELSE Head(plan).rows_per_page + SumRowsPerPage(Tail(plan))

DocumentedTerms == {"series_id", "name", "last_updated"}

\* C13: Search.query called with a search_term outside {series_id, name,
\* last_updated} raises to its caller before any request is issued and before
\* any job is enqueued: the job queue and the results queue are untouched.
C13_PlannerErrorFirst ==
    (sterm \notin DocumentedTerms /\ spc # "clean") =>
        /\ spc = "assert_raised"
        /\ sgets = 0
        /\ splan = <<>>
        /\ queue = <<>>
        /\ unfinished_tasks = 0
        /\ results = <<>>

\* C13 witness: the call with search_term "category" has raised.
C13_Witness == sterm = "category" /\ spc = "assert_raised"

\* C14: the counter join() waits on is decremented once per job a consumer
\* has finished with, after a parse that returned and after one that raised
\* alike: it is the number of jobs enqueued and not yet processed, so never
\* negative, and zero exactly when every enqueued job has been processed.
C14_PendingCounter ==
    /\ unfinished_tasks >= 0
    /\ unfinished_tasks =
          Cardinality(DOMAIN outcome) - Cardinality(processed)

\* C18: with rows = 0 the row limit is rows_available: every job enqueued
\* requests between 1 and 10000 rows at firstrow = 10000 * p, and the row
\* counts sum to rows_available.
C18_RowPagingAll ==
    (urows0 = 0 /\ upc = "join") =>
        /\ Len(uplan) = CeilDiv(uavail, PageSize)
        /\ \A p \in 0..(Len(uplan) - 1) :
              /\ uplan[p + 1].firstrow = PageSize * p
              /\ uplan[p + 1].rows >= 1
              /\ uplan[p + 1].rows <= PageSize
              /\ uplan[p + 1].firstrow + uplan[p + 1].rows =
                    (IF p + 1 = Len(uplan) THEN uavail
                     ELSE uplan[p + 2].firstrow)

\* C19: the fetch-all jobs are numbered like the probe and the single-page
\* request, from page_num = 1: they carry page_num 1..pages, and the pages,
\* each starting at result (page_num - 1) * rows_per_page, are consecutive
\* from 0 and end at total.
C19_PageNumbers ==
    (FetchAll(smode) /\ spc = "join") =>
        \A p \in 1..Len(splan) :
            /\ splan[p].page_num = p
            /\ (splan[p].page_num - 1) * splan[p].rows_per_page
                  + splan[p].rows_per_page =
                  (IF p = Len(splan) THEN stotal
                   ELSE (splan[p + 1].page_num - 1)
                           * splan[p + 1].rows_per_page)

RECURSIVE Concat(_)
\* The chunks of a sequence of chunks, one after the other.
Concat(chunks) ==
    IF chunks = <<>> THEN <<>> ELSE Head(chunks) \o Concat(Tail(chunks))

C16_QueuesEmptyAtReturn ==
    \A c \in Calls :
        /\ (Finished(c) /\ c = ncalls) => (queue = <<>> /\ results = <<>>)
        /\ \A i \in 1..Len(cout[c]) : cout[c][i].job[1] = c

\* C16 witness: the second of two queries with jobs has returned.
C16_Witness ==
    /\ ncalls = 2
    /\ cpc[1] = "returned" /\ cn[1] >= 1
    /\ cpc[2] = "returned" /\ cn[2] >= 1

\* No job is in two places: once dequeued it is not in the queue again, and
\* no two consumers hold the same job.
AtMostOneWorker ==
    /\ \A i, k \in 1..Len(queue) : i # k => queue[i] # queue[k]
    /\ \A i \in 1..Len(queue) :
          /\ queue[i] \notin processed
          /\ \A w \in Workers : wjob[w] # queue[i]
    /\ \A w, v \in Workers :
          (w # v /\ wjob[w] # NoJob) => wjob[w] # wjob[v]
    /\ \A j \in DOMAIN outcome : Len(outcome[j]) <= 1

\* C17: every enqueued job is dequeued and executed by exactly one consumer:
\* by no more than one, and by one, so that a job waiting in the queue always
\* has a live consumer to take it.
C17_ExactlyOneWorker ==
    /\ AtMostOneWorker
    /\ queue # <<>> => \E w \in Workers : wpc[w] # "dead"

\* C15: a job's parameter bundle is never changed after it is enqueued: the
\* object a put enqueued still has the value it had at the put, and the value
\* a consumer passes to parse is that value, while the loop goes on building
\* and enqueuing later pages.
C15_BundleUnchanged ==
    /\ \A i \in 1..Len(hput) : heap[hput[i].ref] = hput[i].val
    /\ \A s \in hseen : s.val = hput[s.put].val

\* C15 witness: a consumer parsed the first page's job after the loop had
\* built the object of a later page.
C15_Witness ==
    \E s \in hseen : s.put = 1 /\ s.objs > hput[1].ref /\ Len(hput) >= 2

====
